---- MODULE Spec2Model ----
(***************************************************************************)
(* FirestoreDataConverter: conversion of JavaScript values to the value    *)
(* subset Firestore stores (convertValueToFirestore) and back               *)
(* (convertValueFromFirestore), with the typed plain object encoding        *)
(* (convertToTypedPlainObject) and the custom converter tables.             *)
(*                                                                         *)
(* JavaScript values are records with a "kind" field.  A thrown exception  *)
(* is the value Throw(msg); a conversion that meets one returns it.        *)
(***************************************************************************)
EXTENDS Integers, Sequences, FiniteSets

VARIABLES options, value, stored, loaded, pc

vars == <<options, value, stored, loaded, pc>>

\* Depth of nesting of the input values drawn by Init.
MaxDepth == 3

(***************************************************************************)
(* Property names.  KeyOrder is the order in which own properties are      *)
(* enumerated: integer keys ascending first, then the string keys in the   *)
(* order the inputs were created with.                                     *)
(***************************************************************************)
Digits == <<"0", "1", "2", "3", "4", "5", "6", "7", "8", "9">>

KeyOrder == Digits \o <<"a", "b", "x", "y", "seconds", "stack", "message", "length", "name", "string", "_constructor">>

IdxKey(i) == Digits[i + 1]

IsIndexKey(k) == \E i \in 1..Len(Digits) : Digits[i] = k

IndexOf(k) == (CHOOSE i \in 1..Len(Digits) : Digits[i] = k) - 1

\* The keys of a set, as a sequence in enumeration order.
RECURSIVE InOrderFrom(_, _)
InOrderFrom(keys, i) ==
    IF i > Len(KeyOrder) THEN <<>>
    ELSE IF KeyOrder[i] \in keys THEN <<KeyOrder[i]>> \o InOrderFrom(keys, i + 1)
    ELSE InOrderFrom(keys, i + 1)

InOrder(keys) == InOrderFrom(keys, 1)

(***************************************************************************)
(* Values.                                                                 *)
(***************************************************************************)
Undefined == [kind |-> "undefined"]
Null == [kind |-> "null"]
Hole == [kind |-> "hole"]
Num(n) == [kind |-> "number", n |-> n]
Bool(b) == [kind |-> "boolean", b |-> b]
Str(s) == [kind |-> "string", s |-> s]
BigInt(n) == [kind |-> "bigint", big |-> n]
Sym(d) == [kind |-> "symbol", desc |-> d]
Func(name, src) == [kind |-> "function", fname |-> name, src |-> src]
Throw(msg) == [kind |-> "throw", msg |-> msg]

NoProps == [k \in {} |-> Undefined]

\* An array: its elements (Hole where an index is not set) and its non-index properties.
Arr(elems) == [kind |-> "array", elems |-> elems, extra |-> NoProps]

\* Any other object: its prototype chain as constructor names, nearest first, its own
\* properties, which of them are not enumerable, and its internal slot (a Date's time).
Obj(proto, own, hidden, slot) == [kind |-> "object", proto |-> proto, own |-> own, hidden |-> hidden, slot |-> slot]

Plain(own) == Obj(<<"Object">>, own, {}, 0)

IsThrow(v) == v.kind = "throw"

Props1(k1, v1) == [k \in {k1} |-> v1]

Props2(k1, v1, k2, v2) == [k \in {k1, k2} |-> IF k = k1 THEN v1 ELSE v2]

Props3(k1, v1, k2, v2, k3, v3) == [k \in {k1, k2, k3} |-> IF k = k1 THEN v1 ELSE IF k = k2 THEN v2 ELSE v3]

\* f with key k set to v (added when absent).
SetProp(f, k, v) == [j \in DOMAIN f \cup {k} |-> IF j = k THEN v ELSE f[j]]

(***************************************************************************)
(* The language's own operations the converter uses.                       *)
(***************************************************************************)
\* typeof value
typeof(v) ==
    CASE v.kind = "undefined" -> "undefined"
      [] v.kind = "null" -> "object"
      [] v.kind = "array" -> "object"
      [] v.kind = "object" -> "object"
      [] OTHER -> v.kind

\* value?.constructor?.name ; "" when there is none
constructorName(v) ==
    CASE v.kind = "undefined" -> ""
      [] v.kind = "null" -> ""
      [] v.kind = "number" -> "Number"
      [] v.kind = "boolean" -> "Boolean"
      [] v.kind = "string" -> "String"
      [] v.kind = "bigint" -> "BigInt"
      [] v.kind = "symbol" -> "Symbol"
      [] v.kind = "function" -> "Function"
      [] v.kind = "array" -> "Array"
      [] v.kind = "object" -> IF v.proto = <<>> THEN "" ELSE Head(v.proto)

\* object instanceof C
instanceof(v, C) == v.kind = "object" /\ \E i \in 1..Len(v.proto) : v.proto[i] = C

\* isInstanceOf of util.js: walks the prototype chain comparing constructor names.
isInstanceOf(object, type) ==
    IF object.kind \in {"undefined", "null"} THEN FALSE
    ELSE IF object.kind = "object" THEN \E i \in 1..Len(object.proto) : object.proto[i] = type
    ELSE constructorName(object) = type \/ type = "Object"

\* The indices of an array that are set.
SetIndices(a) == {i \in 1..Len(a.elems) : a.elems[i] # Hole}

\* Object.getOwnPropertyNames(object): enumerable or not; an array's include "length".
getOwnPropertyNamesEnumerableOnly(object) ==
    IF object.kind = "array"
    THEN {IdxKey(i - 1) : i \in SetIndices(object)} \cup DOMAIN object.extra
    ELSE DOMAIN object.own \ object.hidden

getOwnPropertyNames(object) ==
    IF object.kind = "array"
    THEN {IdxKey(i - 1) : i \in SetIndices(object)} \cup {"length"} \cup DOMAIN object.extra
    ELSE DOMAIN object.own

\* The keys of Object.entries(object): own and enumerable.
entryKeys(object) ==
    IF object.kind = "array"
    THEN {IdxKey(i - 1) : i \in SetIndices(object)} \cup DOMAIN object.extra
    ELSE IF object.kind = "object" THEN DOMAIN object.own \ object.hidden
    ELSE {}

\* object[key] ; Undefined when there is no such property
Get(object, key) ==
    CASE object.kind = "array" ->
           IF key = "length" THEN Num(Len(object.elems))
           ELSE IF IsIndexKey(key)
                THEN IF IndexOf(key) < Len(object.elems) /\ object.elems[IndexOf(key) + 1] # Hole
                     THEN object.elems[IndexOf(key) + 1] ELSE Undefined
                ELSE IF key \in DOMAIN object.extra THEN object.extra[key] ELSE Undefined
      [] object.kind = "object" -> IF key \in DOMAIN object.own THEN object.own[key] ELSE Undefined
      [] OTHER -> Undefined

\* symbol.toString()
symbolToString(v) == Str("Symbol(" \o v.desc \o ")")

\* The first exception among the results of a loop over keys in enumeration order,
\* or Undefined when none was thrown.
FirstThrow(results, order) ==
    IF \E i \in 1..Len(order) : IsThrow(results[order[i]])
    THEN results[order[CHOOSE i \in 1..Len(order) : IsThrow(results[order[i]]) /\ \A j \in 1..(i - 1) : ~IsThrow(results[order[j]])]]
    ELSE Undefined

(***************************************************************************)
(* Options and the constructor.                                            *)
(***************************************************************************)
NoConverters == [k \in {} |-> "continue"]

OptionNames == {"toFirestoreConverters", "fromFirestoreConverters", "undefinedValues", "multidimensionalArrays", "functions", "classInstances", "fallback", "constructorKey"}

\* The values the constructor's ??= assignments give to the options that are not set.
DefaultOptions ==
    [toFirestoreConverters |-> NoConverters,
     fromFirestoreConverters |-> NoConverters,
     undefinedValues |-> "omit",
     multidimensionalArrays |-> "convert",
     functions |-> "omit",
     classInstances |-> "convert",
     fallback |-> "return",
     constructorKey |-> "_constructor"]

\* new FirestoreDataConverter(given): given holds the options that are set.
constructor(given) ==
    [name \in OptionNames |-> IF name \in DOMAIN given THEN given[name] ELSE DefaultOptions[name]]

(***************************************************************************)
(* Custom converters.  A table maps a typeof tag or a constructor name to  *)
(* a converter function; the functions a caller registers are inputs, and  *)
(* the model draws them from the ones below.                               *)
(***************************************************************************)
\* new ContinueConversion()
ContinueMarker == Obj(<<"ContinueConversion", "Object">>, NoProps, {}, 0)

\* String(v), for the message of an Error
stringOf(v) ==
    CASE v.kind = "string" -> v.s
      [] v.kind = "number" -> IF v.n \in 0..9 THEN Digits[v.n + 1] ELSE "NaN"
      [] v.kind = "boolean" -> IF v.b THEN "true" ELSE "false"
      [] v.kind = "null" -> "null"
      [] v.kind = "array" -> ""
      [] OTHER -> "[object Object]"

\* new Error(message): message and stack are own properties that are not enumerable.
NewError(message) ==
    IF message.kind = "undefined"
    THEN Obj(<<"Error", "Object">>, Props1("stack", Str("Error")), {"stack"}, 0)
    ELSE Obj(<<"Error", "Object">>, Props2("stack", Str("Error"), "message", Str(stringOf(message))), {"stack", "message"}, 0)

\* The registered function `converter` applied to v.
CallConverter(converter, v) ==
    CASE converter = "continue" -> ContinueMarker
      [] converter = "custom" -> Str("custom")
      [] converter = "null" -> Null
      [] converter = "errorFromObject" ->
           IF Get(v, "_constructor") = Str("Error") THEN NewError(Get(v, "message")) ELSE ContinueMarker

Handled(v) == [handled |-> TRUE, result |-> v]

NotHandled == [handled |-> FALSE, result |-> Undefined]

\* The mutation: the constructor name's converter is consulted before the type tag's.
customConverterNameFirst(converters, v) ==
    LET t == typeof(v)
        c == constructorName(v)
    IN  IF c # "" /\ c \in DOMAIN converters /\ ~instanceof(CallConverter(converters[c], v), "ContinueConversion")
        THEN Handled(CallConverter(converters[c], v))
        ELSE IF t \in DOMAIN converters /\ ~instanceof(CallConverter(converters[t], v), "ContinueConversion")
        THEN Handled(CallConverter(converters[t], v))
        ELSE NotHandled

\* "Case: custom converter": the converter under typeof value, then the one under the
\* constructor's name; a result that is not a ContinueConversion is the conversion's.
customConverter(converters, v) ==
    LET t == typeof(v)
        c == constructorName(v)
    IN  IF t \in DOMAIN converters /\ ~instanceof(CallConverter(converters[t], v), "ContinueConversion")
        THEN Handled(CallConverter(converters[t], v))
        ELSE IF c # "" /\ c \in DOMAIN converters /\ ~instanceof(CallConverter(converters[c], v), "ContinueConversion")
        THEN Handled(CallConverter(converters[c], v))
        ELSE NotHandled

(***************************************************************************)
(* convertValueToFirestore and convertToTypedPlainObject.                  *)
(***************************************************************************)
RECURSIVE convertValueToFirestore(_, _, _)
RECURSIVE convertToTypedPlainObject(_, _, _)

\* "Case: undefined"
caseUndefined(this) ==
    CASE this.undefinedValues = "omit" -> Undefined
      [] this.undefinedValues = "null" -> Null
      [] OTHER -> Throw("Invalid value for undefinedValues")

\* "Case: Firestore types": the switch on the constructor's name.
isFirestoreType(name) == name \in {"DocumentReference", "GeoPoint", "Timestamp", "FieldValue"}

\* "Case: Function", for the modes the switch has a case for.
caseFunction(this, v) ==
    CASE this.functions = "convert" ->
           Plain(Props3(this.constructorKey, Str("Function"), "name", Str(v.fname), "string", Str(v.src)))
      [] this.functions = "omit" -> Undefined
      [] this.functions = "error" -> Throw("Firestore can't handle functions")

\* The mutation: a nested array is dropped under "convert" too.
caseNestedArrayDropped(this, v) ==
    CASE this.multidimensionalArrays = "convert" -> Undefined
      [] this.multidimensionalArrays = "omit" -> Undefined
      [] this.multidimensionalArrays = "error" -> Throw("Firestore can't handle multi-dimensional arrays")
      [] OTHER -> Throw("Invalid value for multidimensionalArrays")

\* "Case: Array", inside an array.
caseNestedArray(this, v) ==
    CASE this.multidimensionalArrays = "convert" -> convertToTypedPlainObject(this, v, TRUE)
      [] this.multidimensionalArrays = "omit" -> Undefined
      [] this.multidimensionalArrays = "error" -> Throw("Firestore can't handle multi-dimensional arrays")
      [] OTHER -> Throw("Invalid value for multidimensionalArrays")

\* The mutation: the elements are converted as if they were not inside an array.
caseArrayFlagLost(this, v) ==
    LET r == [i \in 1..Len(v.elems) |-> IF v.elems[i] = Hole THEN Hole ELSE convertValueToFirestore(this, v.elems[i], FALSE)]
    IN  IF \E i \in 1..Len(r) : IsThrow(r[i])
        THEN r[CHOOSE i \in 1..Len(r) : IsThrow(r[i]) /\ \A j \in 1..(i - 1) : ~IsThrow(r[j])]
        ELSE Arr(r)

\* "Case: Array", not inside one: value.map(item => convertValueToFirestore(item, true))
caseArray(this, v) ==
    LET r == [i \in 1..Len(v.elems) |-> IF v.elems[i] = Hole THEN Hole ELSE convertValueToFirestore(this, v.elems[i], TRUE)]
    IN  IF \E i \in 1..Len(r) : IsThrow(r[i])
        THEN r[CHOOSE i \in 1..Len(r) : IsThrow(r[i]) /\ \A j \in 1..(i - 1) : ~IsThrow(r[j])]
        ELSE Arr(r)

\* "Case: Plain object": every entry's key is assigned the converted value.
casePlainObject(this, v) ==
    LET r == [k \in entryKeys(v) |-> convertValueToFirestore(this, v.own[k], FALSE)]
        t == FirstThrow(r, InOrder(entryKeys(v)))
    IN  IF IsThrow(t) THEN t ELSE Plain(r)

\* "Case: unknown"
caseUnknown(this, v) ==
    CASE this.fallback = "return" -> v
      [] this.fallback = "omit" -> Undefined
      [] this.fallback = "error" -> Throw("Can't convert value to Firestore")
      [] OTHER -> Throw("Invalid value for fallback")

convertValueToFirestore(this, v, insideArray) ==
    LET custom == customConverter(this.toFirestoreConverters, v)
    IN  IF custom.handled THEN custom.result
        ELSE IF v.kind = "null" THEN Null
        ELSE IF v.kind = "undefined" THEN caseUndefined(this)
        ELSE IF typeof(v) \in {"number", "boolean", "string", "bigint"} THEN v
        ELSE IF typeof(v) = "symbol" THEN symbolToString(v)
        ELSE IF isFirestoreType(constructorName(v)) THEN v
        ELSE IF instanceof(v, "Date") THEN v
        ELSE IF typeof(v) = "function" /\ this.functions \in {"convert", "omit", "error"} THEN caseFunction(this, v)
        ELSE IF v.kind = "array" THEN (IF insideArray THEN caseNestedArray(this, v) ELSE caseArray(this, v))
        ELSE IF v.kind = "object" /\ v.proto = <<"Object">> THEN casePlainObject(this, v)
        ELSE IF typeof(v) = "object" THEN convertToTypedPlainObject(this, v, TRUE)
        ELSE caseUnknown(this, v)

\* The mutation: the tag is the name of Object, not of the object's constructor.
typeTagObject(object) == "Object"

\* object.constructor.name
typeTag(object) == constructorName(object)

convertToTypedPlainObject(this, object, convertValues) ==
    LET names == getOwnPropertyNames(object)
        r == [k \in names |-> IF convertValues THEN convertValueToFirestore(this, Get(object, k), FALSE) ELSE Get(object, k)]
        t == FirstThrow(r, InOrder(names))
    IN  IF IsThrow(t) THEN t
        ELSE IF object.kind = "object" /\ object.proto = <<>> THEN Throw("TypeError: Cannot read properties of undefined (reading 'name')")
        ELSE Plain(SetProp(r, this.constructorKey, Str(typeTag(object))))

\* toFirestore(modelObject)
toFirestore(this, modelObject) == convertValueToFirestore(this, modelObject, FALSE)

(***************************************************************************)
(* convertValueFromFirestore.                                              *)
(***************************************************************************)
RECURSIVE convertValueFromFirestore(_, _)

\* timestamp.toDate()
toDate(v) ==
    Obj(<<"Date", "Object">>, NoProps, {}, IF Get(v, "seconds").kind = "number" THEN Get(v, "seconds").n * 1000 ELSE 0)

\* The mutation: a tagged array is decoded whatever the policy.
isConvertedArrayUngated(this, v) == Get(v, this.constructorKey) = Str("Array")

\* multidimensionalArrays === "convert" && value?.[constructorKey] === "Array"
isConvertedArray(this, v) ==
    this.multidimensionalArrays = "convert" /\ Get(v, this.constructorKey) = Str("Array")

\* functions === "convert" && value?.[constructorKey] === "Function"
isConvertedFunction(this, v) ==
    this.functions = "convert" /\ Get(v, this.constructorKey) = Str("Function")

\* result[key] = x on the array built so far fails when key is "length" and x is no length.
assignable(k, x) ==
    IF k = "length" /\ ~IsThrow(x) /\ ~(x.kind = "number" /\ x.n >= 0)
    THEN Throw("RangeError: Invalid array length")
    ELSE x

\* "Case: converted Arrays": result = [], then result[key] = converted value for every
\* entry but the tag; index keys come first, so "length" is assigned after them.
caseConvertedArray(this, v) ==
    LET keys == entryKeys(v) \ {this.constructorKey}
        r == [k \in keys |-> assignable(k, convertValueFromFirestore(this, Get(v, k)))]
        t == FirstThrow(r, InOrder(keys))
        top == IF \E k \in keys : IsIndexKey(k)
               THEN 1 + IndexOf(CHOOSE k \in keys : IsIndexKey(k) /\ \A j \in keys : IsIndexKey(j) => IndexOf(j) <= IndexOf(k))
               ELSE 0
        len == IF "length" \in keys THEN r["length"].n ELSE top
        extraKeys == {k \in keys : ~IsIndexKey(k) /\ k # "length"}
    IN  IF IsThrow(t) THEN t
        ELSE [kind |-> "array",
              elems |-> [i \in 1..len |-> IF IdxKey(i - 1) \in keys THEN r[IdxKey(i - 1)] ELSE Hole],
              extra |-> [k \in extraKeys |-> r[k]]]

\* new Function(`return ${value.string}`)()
FunctionSources == {"function test(a) {}", "() => 1"}

nameInSource(src) == IF src = "function test(a) {}" THEN "test" ELSE ""

compile(string) ==
    CASE string.kind = "string" /\ string.s \in FunctionSources -> Func(nameInSource(string.s), string.s)
      [] string.kind = "string" /\ string.s \notin FunctionSources -> Throw("ReferenceError")
      [] string.kind \in {"undefined", "null", "number", "boolean"} -> string
      [] OTHER -> Throw("SyntaxError")

\* "Case: Objects": Object.entries(value) fails on null.
caseObject(this, v) ==
    IF v.kind = "null" THEN Throw("TypeError: Cannot convert undefined or null to object")
    ELSE LET r == [k \in entryKeys(v) |-> convertValueFromFirestore(this, Get(v, k))]
             t == FirstThrow(r, InOrder(entryKeys(v)))
         IN  IF IsThrow(t) THEN t ELSE Plain(r)

convertValueFromFirestore(this, v) ==
    LET custom == customConverter(this.fromFirestoreConverters, v)
    IN  IF custom.handled THEN custom.result
        ELSE IF constructorName(v) = "Timestamp" THEN toDate(v)
        ELSE IF v.kind = "array"
        THEN LET r == [i \in 1..Len(v.elems) |-> IF v.elems[i] = Hole THEN Hole ELSE convertValueFromFirestore(this, v.elems[i])]
             IN  IF \E i \in 1..Len(r) : IsThrow(r[i])
                 THEN r[CHOOSE i \in 1..Len(r) : IsThrow(r[i]) /\ \A j \in 1..(i - 1) : ~IsThrow(r[j])]
                 ELSE Arr(r)
        ELSE IF isConvertedArray(this, v) THEN caseConvertedArray(this, v)
        ELSE IF isConvertedFunction(this, v) THEN compile(Get(v, "string"))
        ELSE IF typeof(v) = "object" THEN caseObject(this, v)
        ELSE v

\* fromFirestore(snapshot, options): data is what snapshot.data(options) returns.
fromFirestore(this, data) == convertValueFromFirestore(this, data)

(***************************************************************************)
(* Inputs: the values handed to the converter and the options it is built  *)
(* with.                                                                   *)
(***************************************************************************)
FunctionTest == Func("test", "function test(a) {}")

\* The leaves that appear at every depth of the input values.
CoreLeaves == {Num(1), Null, Undefined, FunctionTest}

Instance(class, own) == Obj(<<class, "Object">>, own, {}, 0)

\* class FieldValue { } ; class ServerTimestampTransform extends FieldValue { }
ServerTimestampTransform == Obj(<<"ServerTimestampTransform", "FieldValue", "Object">>, NoProps, {}, 0)

\* Plain objects as a store holds them, carrying the reserved key.
TaggedArray == Plain(Props3("0", Num(1), "length", Num(1), "_constructor", Str("Array")))

TaggedArraySparse == Plain(Props2("1", Str("a"), "_constructor", Str("Array")))

TaggedFunction == Plain(Props3("_constructor", Str("Function"), "name", Str("test"), "string", Str("function test(a) {}")))

TaggedError == Plain(Props2("_constructor", Str("Error"), "message", Str("a")))

\* The leaves that appear at the top or directly inside one container.
ShallowLeaves ==
    {Str("a"), Bool(TRUE), BigInt(7), Sym("tag"), Func("f", "() => 1"),
     Instance("Point", Props2("x", Num(1), "y", Num(2))),
     NewError(Str("a")),
     Obj(<<"Date", "Object">>, NoProps, {}, 5000),
     Instance("Timestamp", Props1("seconds", Num(5))),
     Instance("GeoPoint", Props2("x", Num(1), "y", Num(2))),
     Instance("DocumentReference", Props1("a", Str("a"))),
     Instance("FieldValue", NoProps),
     ServerTimestampTransform,
     TaggedArray, TaggedArraySparse, TaggedFunction, TaggedError}

\* The containers built around a value x.
Wrap(x) ==
    {Arr(<<x>>), Arr(<<Num(1), x>>), Plain(Props1("a", x)), Plain(Props2("a", Num(1), "b", x))}

RECURSIVE Values(_)
Values(depth) ==
    IF depth = 0 THEN CoreLeaves
    ELSE CoreLeaves \cup UNION {Wrap(x) : x \in Values(depth - 1)}

Inputs ==
    Values(MaxDepth)
      \cup ShallowLeaves
      \cup UNION {Wrap(x) : x \in ShallowLeaves}
      \cup {Instance("Point", Props2("x", Num(1), "y", x)) : x \in Values(MaxDepth - 1)}

\* "" stands for an option the caller does not set.
UndefinedValuesInputs == {"", "null", "bogus"}
MultidimensionalArraysInputs == {"", "omit", "error", "bogus"}
FunctionsInputs == {"", "convert", "error", "bogus"}
FallbackInputs == {"", "omit", "error", "bogus"}

\* The options object of a caller who sets these policies (and no converters).
GivenPolicies(u, m, f, fb) ==
    LET set == {n \in {"undefinedValues", "multidimensionalArrays", "functions", "fallback"} :
                   (CASE n = "undefinedValues" -> u [] n = "multidimensionalArrays" -> m [] n = "functions" -> f [] OTHER -> fb) # ""}
    IN  [n \in set |-> CASE n = "undefinedValues" -> u [] n = "multidimensionalArrays" -> m [] n = "functions" -> f [] OTHER -> fb]

\* The options object of the test program, with every policy spelled out.
ExplicitDefaults ==
    [undefinedValues |-> "omit", multidimensionalArrays |-> "convert", functions |-> "omit",
     classInstances |-> "convert", fallback |-> "return", constructorKey |-> "_constructor"]

ConverterInputs == {"continue", "custom", "errorFromObject"}

TypeTags == {"object", "number", "undefined"}

ClassNames == {"Object", "Number", "Array", "Point"}

\* The tables with one converter, under a type tag or under a class name.
SingleConverters == {Props1(k, c) : k \in TypeTags \cup ClassNames, c \in ConverterInputs}

\* The tables with a converter under a type tag and another under the name of a class whose
\* instances have that tag.
PairedConverters ==
    {Props2(p[1], byType, p[2], byName) :
        p \in {<<"number", "Number">>, <<"object", "Object">>, <<"object", "Array">>},
        byType \in {"continue", "custom", "null"},
        byName \in {"continue", "custom", "null"}}

NotYet == [kind |-> "none"]

InitPolicies ==
    /\ \E u \in UndefinedValuesInputs, m \in MultidimensionalArraysInputs, f \in FunctionsInputs, fb \in FallbackInputs :
          /\ fb # "" => (f = "bogus" /\ u = "" /\ m = "")
          /\ options = constructor(GivenPolicies(u, m, f, fb))
    /\ value \in Inputs

InitExplicit ==
    /\ options = constructor(ExplicitDefaults)
    /\ value \in Inputs

InitConverters ==
    /\ \E converters \in SingleConverters \cup PairedConverters :
          options = constructor([multidimensionalArrays |-> "convert",
                                 toFirestoreConverters |-> converters,
                                 fromFirestoreConverters |-> converters])
    /\ value \in Inputs

Init ==
    /\ InitPolicies \/ InitExplicit \/ InitConverters
    /\ stored = NotYet
    /\ loaded = NotYet
    /\ pc = "ready"

(***************************************************************************)
(* Operations.                                                             *)
(***************************************************************************)
\* What a document snapshot can hold: no undefined, function or class instance.
RECURSIVE IsStoredData(_)
IsStoredData(v) ==
    CASE v.kind \in {"null", "number", "boolean", "string", "bigint"} -> TRUE
      [] v.kind = "array" -> \A i \in 1..Len(v.elems) : v.elems[i].kind # "array" /\ IsStoredData(v.elems[i])
      [] v.kind = "object" ->
           \/ v.proto = <<"Object">> /\ \A k \in DOMAIN v.own : IsStoredData(v.own[k])
           \/ constructorName(v) \in {"Timestamp", "GeoPoint", "DocumentReference"}
      [] OTHER -> FALSE

\* converter.toFirestore(value)
ToFirestore ==
    /\ pc = "ready"
    /\ stored' = toFirestore(options, value)
    /\ pc' = "written"
    /\ UNCHANGED <<options, value, loaded>>

\* converter.fromFirestore({ data: () => convertedValue }), as the test program does
FromFirestore ==
    /\ pc = "written"
    /\ ~IsThrow(stored)
    /\ loaded' = fromFirestore(options, stored)
    /\ pc' = "read"
    /\ UNCHANGED <<options, value, stored>>

\* converter.fromFirestore(snapshot) on a document some other writer stored
FromFirestoreSnapshot ==
    /\ pc = "ready"
    /\ IsStoredData(value)
    /\ stored' = value
    /\ loaded' = fromFirestore(options, value)
    /\ pc' = "fetched"
    /\ UNCHANGED <<options, value>>

\* converter.convertToTypedPlainObject(object, convertValues)
ConvertToTypedPlainObject ==
    /\ pc = "ready"
    /\ value.kind \in {"array", "object"}
    /\ \E convertValues \in BOOLEAN :
          /\ stored' = convertToTypedPlainObject(options, value, convertValues)
          /\ pc' = IF convertValues THEN "typed" ELSE "typedRaw"
    /\ UNCHANGED <<options, value, loaded>>

Next == ToFirestore \/ FromFirestore \/ FromFirestoreSnapshot \/ ConvertToTypedPlainObject

Spec == Init /\ [][Next]_vars

(***************************************************************************)
(* Properties.                                                             *)
(***************************************************************************)
NoCustom ==
    /\ options.toFirestoreConverters = NoConverters
    /\ options.fromFirestoreConverters = NoConverters

Key == options.constructorKey

RecognizedArrayModes == {"omit", "convert", "error"}

\* Numbers, booleans, strings, large integers, arrays and plain objects of them,
\* no object having a field named by the reserved key.
RECURSIVE IsPlainData(_)
IsPlainData(v) ==
    CASE v.kind \in {"number", "boolean", "string", "bigint"} -> TRUE
      [] v.kind = "array" -> v.extra = NoProps /\ \A i \in 1..Len(v.elems) : IsPlainData(v.elems[i])
      [] v.kind = "object" ->
           /\ v.proto = <<"Object">>
           /\ v.hidden = {}
           /\ Key \notin DOMAIN v.own
           /\ \A k \in DOMAIN v.own : IsPlainData(v.own[k])
      [] OTHER -> FALSE

\* Plain data, null and undefined.
RECURSIVE IsNullableData(_)
IsNullableData(v) ==
    CASE v.kind \in {"null", "undefined", "number", "boolean", "string", "bigint"} -> TRUE
      [] v.kind = "array" -> v.extra = NoProps /\ \A i \in 1..Len(v.elems) : IsNullableData(v.elems[i])
      [] v.kind = "object" ->
           /\ v.proto = <<"Object">>
           /\ v.hidden = {}
           /\ Key \notin DOMAIN v.own
           /\ \A k \in DOMAIN v.own : IsNullableData(v.own[k])
      [] OTHER -> FALSE

\* v holds an array as a direct element of an array.
RECURSIVE HasArrayInArray(_)
HasArrayInArray(v) ==
    CASE v.kind = "array" -> \E i \in 1..Len(v.elems) : v.elems[i].kind = "array" \/ HasArrayInArray(v.elems[i])
      [] v.kind = "object" -> \E k \in DOMAIN v.own : HasArrayInArray(v.own[k])
      [] OTHER -> FALSE

\* C1: with multidimensionalArrays = "convert" and no custom converters, plain data that
\* was converted to Firestore and back deep-equals the original.
RoundTripPlainData ==
    (pc = "read" /\ NoCustom /\ options.multidimensionalArrays = "convert" /\ IsPlainData(value))
        => loaded = value

\* C1 witness: an array holding an array came back equal after being stored as a tagged object.
RoundTripNestedArrayRead ==
    /\ pc = "read" /\ NoCustom /\ options.multidimensionalArrays = "convert" /\ IsPlainData(value)
    /\ value.kind = "array" /\ Len(value.elems) = 2 /\ value.elems[2].kind = "array"
    /\ stored.elems[2].kind = "object"
    /\ loaded = value

\* The conversion of a field's value is the omit result.
IsOmitted(v) ==
    \/ v.kind = "undefined" /\ options.undefinedValues = "omit"
    \/ v.kind = "function" /\ options.functions = "omit"

\* C2: with undefinedValues = "omit", the result of converting a plain object lacks the key
\* of every field whose value is undefined or converts to the omit result, and keeps every
\* other key.
OmittedFieldsAbsent ==
    (pc = "written" /\ NoCustom /\ options.undefinedValues = "omit"
       /\ value.kind = "object" /\ value.proto = <<"Object">> /\ ~IsThrow(stored))
        => \A k \in DOMAIN value.own : (k \in DOMAIN stored.own) <=> ~IsOmitted(value.own[k])

IsContinue(v) == v.kind = "object" /\ v.proto = <<"ContinueConversion", "Object">>

\* The registered converters decide `out` for v: the type tag's first, then the name's.
Precedence(converters, v, out) ==
    LET t == typeof(v)
        c == constructorName(v)
        tagDecides == t \in DOMAIN converters /\ ~IsContinue(CallConverter(converters[t], v))
        nameDecides == c \in DOMAIN converters /\ ~IsContinue(CallConverter(converters[c], v))
    IN  /\ tagDecides => out = CallConverter(converters[t], v)
        /\ (~tagDecides /\ nameDecides) => out = CallConverter(converters[c], v)

OnlyContinue(converters) == \A k \in DOMAIN converters : converters[k] = "continue"

\* Every converter of the table that matches v returns the marker for it.
Declines(converters, v) ==
    \A k \in {typeof(v), constructorName(v)} \cap DOMAIN converters : IsContinue(CallConverter(converters[k], v))

\* v and the values nested in it at any depth.
RECURSIVE Parts(_)
Parts(v) ==
    {v} \cup (CASE v.kind = "array" -> UNION {Parts(v.elems[i]) : i \in SetIndices(v)}
                [] v.kind = "object" -> UNION {Parts(v.own[k]) : k \in DOMAIN v.own}
                [] OTHER -> {})

\* The lengths of the arrays among a set of values.
Lengths(parts) == {Num(Len(a.elems)) : a \in {x \in parts : x.kind = "array"}}

WithoutConverters(this) ==
    [n \in OptionNames |-> IF n \in {"toFirestoreConverters", "fromFirestoreConverters"} THEN NoConverters ELSE this[n]]

\* lengthsToo says whether the lengths of the arrays count among the values the converters
\* must decline.
Precedes(lengthsToo) ==
    /\ pc = "written" =>
          /\ Precedence(options.toFirestoreConverters, value, stored)
          /\ (\A x \in Parts(value) \cup (IF lengthsToo THEN Lengths(Parts(value)) ELSE {}) :
                 Declines(options.toFirestoreConverters, x))
                => stored = convertValueToFirestore(WithoutConverters(options), value, FALSE)
    /\ pc \in {"read", "fetched"} =>
          /\ Precedence(options.fromFirestoreConverters, stored, loaded)
          /\ (\A x \in Parts(stored) \cup (IF lengthsToo THEN Lengths(Parts(stored)) ELSE {}) :
                 Declines(options.fromFirestoreConverters, x))
                => loaded = convertValueFromFirestore(WithoutConverters(options), stored)

\* C3 as stated: in both directions the converter under the value's type tag decides the
\* result unless it returns the marker, then the one under the constructor's name; when every
\* converter that matches the value or a value nested in it returns the marker, the result is
\* the one with no converter registered.
CustomConverterPrecedence == Precedes(FALSE)

\* C3 as amended: the same, the result being the one with no converter registered when every
\* converter returns the marker for the value, for every value nested in it and for the
\* length of every array in it (the length of an array nested in an array is converted as
\* one of its fields).
CustomConverterPrecedenceWithLengths == Precedes(TRUE)

\* C3 witness: both a type tag converter and a name converter match the value, they return
\* different results, and the type tag's is the conversion's.
BothConvertersMatched ==
    /\ pc = "written"
    /\ typeof(value) \in DOMAIN options.toFirestoreConverters
    /\ constructorName(value) \in DOMAIN options.toFirestoreConverters
    /\ options.toFirestoreConverters[typeof(value)] = "custom"
    /\ options.toFirestoreConverters[constructorName(value)] = "null"
    /\ stored = Str("custom")

\* C4: under an unrecognized mode of undefinedValues, multidimensionalArrays, functions or
\* fallback, converting a value that policy governs raises an error.
InvalidModeIsFatal ==
    (pc = "written" /\ NoCustom) =>
        /\ (value.kind = "undefined" /\ options.undefinedValues \notin {"omit", "null"}) => IsThrow(stored)
        /\ (value.kind = "array" /\ HasArrayInArray(value) /\ IsPlainData(value)
              /\ options.multidimensionalArrays \notin RecognizedArrayModes) => IsThrow(stored)
        /\ (value.kind = "function" /\ options.functions \notin {"omit", "convert", "error"}) => IsThrow(stored)
        /\ (value.kind = "function" /\ options.functions \notin {"omit", "convert", "error"}
              /\ options.fallback \notin {"return", "omit", "error"}) => IsThrow(stored)

StoreNativeClasses == {"DocumentReference", "GeoPoint", "Timestamp", "FieldValue"}

\* C5: with no custom converters, an instance of DocumentReference, GeoPoint, Timestamp or
\* FieldValue, or of a subclass of one of them, and every Date, is returned as it is.
StoreNativePassThrough ==
    (pc = "written" /\ NoCustom
       /\ ((\E class \in StoreNativeClasses : isInstanceOf(value, class)) \/ instanceof(value, "Date")))
        => stored = value

\* An instance of a class that is neither a store's class, nor a Date, nor a subclass
\* of one, whose own properties hold plain data.
IsUserInstance(v) ==
    /\ v.kind = "object"
    /\ Len(v.proto) >= 2
    /\ \A i \in 1..Len(v.proto) : v.proto[i] \notin StoreNativeClasses \cup {"Date", "ContinueConversion"}
    /\ Key \notin DOMAIN v.own
    /\ \A k \in DOMAIN v.own : IsPlainData(v.own[k])

\* The policy rejects no part of the instance's data.
AcceptsArraysOf(v) == options.multidimensionalArrays \in {"convert", "omit"} \/ ~HasArrayInArray(v)

OwnNames(v) ==
    IF v.kind = "array"
    THEN {IdxKey(i) : i \in {j \in 0..(Len(v.elems) - 1) : v.elems[j + 1] # Hole}} \cup {"length"} \cup DOMAIN v.extra
    ELSE DOMAIN v.own

EnumerableNames(v) ==
    IF v.kind = "array"
    THEN {IdxKey(i) : i \in {j \in 0..(Len(v.elems) - 1) : v.elems[j + 1] # Hole}} \cup DOMAIN v.extra
    ELSE DOMAIN v.own \ v.hidden

\* C7 as stated: the keys of a typed plain object are the object's own enumerable property
\* names plus the reserved key; for an array of n elements "0".."n-1" and the reserved key,
\* which holds "Array".
TypedKeysAreEnumerableNames ==
    (pc \in {"typed", "typedRaw"} /\ ~IsThrow(stored)) =>
        /\ DOMAIN stored.own = EnumerableNames(value) \cup {Key}
        /\ value.kind = "array" => stored.own[Key] = Str("Array")

\* C7 as amended: the keys of a typed plain object are all the object's own property names,
\* enumerable or not, plus the reserved key, which holds the constructor's name; for an array
\* of n elements "0".."n-1", "length" (holding n unless a custom converter changes it) and
\* the reserved key, which holds "Array".
TypedKeysAreOwnNames ==
    (pc \in {"typed", "typedRaw"} /\ ~IsThrow(stored)) =>
        /\ stored.kind = "object" /\ stored.proto = <<"Object">>
        /\ DOMAIN stored.own = OwnNames(value) \cup {Key}
        /\ stored.own[Key] = Str(IF value.kind = "array" THEN "Array" ELSE Head(value.proto))
        /\ (value.kind = "array" /\ (NoCustom \/ pc = "typedRaw")) => stored.own["length"] = Num(Len(value.elems))

\* C7 witness: an array of two elements was encoded with the keys "0", "1", "length" and
\* the reserved key.
ArrayTypedWithLength ==
    /\ pc = "typed"
    /\ value.kind = "array" /\ Len(value.elems) = 2
    /\ ~IsThrow(stored)
    /\ DOMAIN stored.own = {"0", "1", "length", Key}

\* No array is a direct element of an array, at any depth of v.
RECURSIVE NoArrayInArray(_)
NoArrayInArray(v) ==
    CASE v.kind = "array" -> \A i \in 1..Len(v.elems) : v.elems[i].kind # "array" /\ NoArrayInArray(v.elems[i])
      [] v.kind = "object" -> \A k \in DOMAIN v.own : NoArrayInArray(v.own[k])
      [] OTHER -> TRUE

\* out encodes the plain data v, under "convert" or "omit": an array inside an array is a
\* tagged object (convert) or undefined (omit), any other array is kept as an array, a plain
\* object keeps its fields.  inTagged says whether the elements of an array that was encoded
\* as a tagged object count as being inside an array.
RECURSIVE Encodes(_, _, _, _)
Encodes(v, out, insideArray, inTagged) ==
    CASE v.kind = "array" /\ insideArray /\ options.multidimensionalArrays = "omit" -> out = Undefined
      [] v.kind = "array" /\ insideArray /\ options.multidimensionalArrays = "convert" ->
           /\ out.kind = "object"
           /\ Key \in DOMAIN out.own
           /\ out.own[Key] = Str("Array")
           /\ \A i \in 1..Len(v.elems) :
                 /\ IdxKey(i - 1) \in DOMAIN out.own
                 /\ Encodes(v.elems[i], out.own[IdxKey(i - 1)], inTagged, inTagged)
      [] v.kind = "array" /\ ~insideArray ->
           /\ out.kind = "array"
           /\ Len(out.elems) = Len(v.elems)
           /\ \A i \in 1..Len(v.elems) : Encodes(v.elems[i], out.elems[i], TRUE, inTagged)
      [] v.kind = "object" ->
           /\ out.kind = "object"
           /\ out.proto = <<"Object">>
           /\ DOMAIN out.own = DOMAIN v.own
           /\ \A k \in DOMAIN v.own : Encodes(v.own[k], out.own[k], FALSE, inTagged)
      [] OTHER -> out = v

OneLevel(inTagged) ==
    (pc = "written" /\ NoCustom /\ options.multidimensionalArrays \in RecognizedArrayModes) =>
        /\ ~IsThrow(stored) => NoArrayInArray(stored)
        /\ IsPlainData(value) =>
              IF options.multidimensionalArrays = "error"
              THEN IsThrow(stored) <=> HasArrayInArray(value)
              ELSE ~IsThrow(stored) /\ Encodes(value, stored, FALSE, inTagged)

\* C8 as stated: no result holds an array directly inside an array, and an array is encoded
\* as a tagged object, dropped or rejected exactly when its immediate container is an array.
ArraysOneLevelByContainer == OneLevel(TRUE)

\* C8 as amended: no result holds an array directly inside an array, and an array is encoded
\* as a tagged object, dropped or rejected exactly when its immediate container is an array
\* that is itself kept as an array; an array that is an element of an array encoded as a
\* tagged object is kept as an array, as is an array that is a field of a plain object.
ArraysOneLevelByKeptContainer == OneLevel(FALSE)

\* C8 witness: of three arrays nested in each other the middle one was stored as a tagged
\* object and the innermost as an array under its key "0".
InnermostArrayKept ==
    /\ pc = "written" /\ NoCustom /\ options.multidimensionalArrays = "convert"
    /\ IsPlainData(value)
    /\ value.kind = "array" /\ Len(value.elems) = 1
    /\ value.elems[1].kind = "array" /\ Len(value.elems[1].elems) = 1
    /\ value.elems[1].elems[1].kind = "array"
    /\ stored.elems[1].kind = "object"
    /\ stored.elems[1].own["0"].kind = "array"

\* loaded is stored as a plain mapping, the tag among its fields.
ReadAsMapping ==
    /\ loaded.kind = "object"
    /\ loaded.proto = <<"Object">>
    /\ DOMAIN loaded.own = DOMAIN stored.own \ stored.hidden
    /\ loaded.own[Key] = stored.own[Key]

\* C9: with no custom converters an object tagged "Array" is read as an array only when
\* multidimensionalArrays is "convert", and an object tagged "Function" is compiled into a
\* function only when functions is "convert"; under any other mode it is read as a plain
\* mapping with its tag kept.
InboundDecodingGated ==
    (pc \in {"read", "fetched"} /\ NoCustom /\ stored.kind = "object"
       /\ stored.proto = <<"Object">> /\ Key \in DOMAIN stored.own) =>
        /\ stored.own[Key] = Str("Array") =>
              IF options.multidimensionalArrays = "convert" THEN loaded.kind = "array" ELSE ReadAsMapping
        /\ stored.own[Key] = Str("Function") =>
              IF options.functions = "convert" THEN loaded.kind = "function" ELSE ReadAsMapping

\* C9 witness: under "omit" a stored object tagged "Array" was read as a plain mapping.
TaggedArrayReadAsMapping ==
    /\ pc = "fetched" /\ NoCustom
    /\ options.multidimensionalArrays = "omit"
    /\ stored = TaggedArray
    /\ loaded = TaggedArray

\* Every null of the stored value v is a null at the same place of out.
RECURSIVE NullsKept(_, _)
NullsKept(v, out) ==
    CASE v.kind = "null" -> out = Null
      [] v.kind = "array" ->
           /\ out.kind = "array"
           /\ Len(out.elems) = Len(v.elems)
           /\ \A i \in 1..Len(v.elems) : NullsKept(v.elems[i], out.elems[i])
      [] v.kind = "object" /\ out.kind = "object" ->
           \A k \in DOMAIN v.own \cap DOMAIN out.own : NullsKept(v.own[k], out.own[k])
      [] OTHER -> TRUE

\* C10: with no custom converter, or only ones that return the marker, reading back what was
\* written for a value of null, scalars, arrays and plain objects raises no error, and every
\* null of the stored value comes back as null.
InboundAcceptsOutbound ==
    (pc = "read" /\ OnlyContinue(options.toFirestoreConverters) /\ OnlyContinue(options.fromFirestoreConverters)
       /\ IsNullableData(value))
        => ~IsThrow(loaded) /\ NullsKept(stored, loaded)

====
